---------------------------- MODULE Spec2Model ----------------------------
(***************************************************************************)
(* Model of the CSV loader (src/data_extraction.py) and of the query      *)
(* history of the chat UI (src/postgres_calling_agent.py).                *)
(*                                                                         *)
(* A Python str is modelled as a sequence of one-character strings, so     *)
(* that every string operation of the source (replace, re.sub, strip,      *)
(* lower, slicing) is computed character by character.                     *)
(***************************************************************************)
EXTENDS Integers, Sequences, FiniteSets, TLC

VARIABLES
    name,          \* format_column_name / shorten_column_name: the argument
    result,        \* ... and the value returned
    npc,           \* "input" | "formatted" | "shortened"
    csv,           \* the CSV file: a sequence of rows, each a sequence of cells
    inferred,      \* what infer_column_types returned (or that it raised)
    pc,            \* main() of data_extraction.py: the next step
    conn,          \* "none" | "open" | "closed"
    cursor,        \* "none" | "open" | "closed"
    row_index,     \* insert_data_from_csv: index in csv of the reader's next row
    events,        \* everything main() did to the database and the error log
    session_keys,  \* st.session_state: the keys present
    history,       \* st.session_state.history
    last           \* the last rerun of the UI script: its inputs and outcome

vars == <<name, result, npc, csv, inferred, pc, conn, cursor, row_index,
          events, session_keys, history, last>>

normVars == <<name, result, npc>>
loadVars == <<csv, inferred, pc, conn, cursor, row_index, events>>
uiVars   == <<session_keys, history, last>>

(***************************************************************************)
(* Bounds of the model.                                                    *)
(***************************************************************************)
MaxLen == 3          \* short headers: every string over Alphabet up to here
MaxLong == 70        \* long headers: lengths 62..MaxLong
MaxCells == 3        \* sample rows of the type inferrer: cells per row
MaxRows == 2         \* loader: data rows per file
MaxCols == 2         \* loader: cells per row
MaxHistory == 3      \* UI: entries of the session history

(***************************************************************************)
(* Characters.                                                             *)
(***************************************************************************)
Lowers == <<"a","b","c","d","e","f","g","h","i","j","k","l","m","n","o","p","q","r","s","t","u","v","w","x","y","z">>
Uppers == <<"A","B","C","D","E","F","G","H","I","J","K","L","M","N","O","P","Q","R","S","T","U","V","W","X","Y","Z">>
Digits == <<"0","1","2","3","4","5","6","7","8","9">>

Range(s) == { s[i] : i \in 1..Len(s) }

DigitChars == Range(Digits)
LowerChars == Range(Lowers)
UpperChars == Range(Uppers)
WordChars == LowerChars \cup UpperChars \cup DigitChars \cup {"_"}
SpaceChars == {" ", "\t", "\n", "\r", "\f"}

\* \d of re (ASCII part), str.isdigit on one character
IsDigit(c) == c \in DigitChars

\* \w of re (ASCII part): letters, digits, underscore
IsWord(c) == c \in WordChars

\* \s of re and the characters str.strip() removes (ASCII part)
IsSpace(c) == c \in SpaceChars

DigitValues == [c \in DigitChars |-> (CHOOSE i \in 1..10 : Digits[i] = c) - 1]
DigitValue(c) == DigitValues[c]

\* str.lower on one character
LowerOf == [c \in UpperChars |-> Lowers[CHOOSE i \in 1..26 : Uppers[i] = c]]
LowerChar(c) == IF c \in UpperChars THEN LowerOf[c] ELSE c

\* the strings of ps joined, by halves
Flatten(ps) ==
    LET F[lo \in 1..(Len(ps) + 1), hi \in 0..Len(ps)] ==
            IF lo > hi THEN <<>>
            ELSE IF lo = hi THEN ps[lo]
            ELSE F[lo, (lo + hi) \div 2] \o F[((lo + hi) \div 2) + 1, hi]
    IN  F[1, Len(ps)]

Rep(c, n) == [i \in 1..n |-> c]

(***************************************************************************)
(* SQL_KEYWORDS, src/data_extraction.py:23-28.                             *)
(***************************************************************************)
SQL_KEYWORDS == {
    <<"s","e","l","e","c","t">>, <<"i","n","s","e","r","t">>, <<"u","p","d","a","t","e">>, <<"d","e","l","e","t","e">>, <<"f","r","o","m">>, <<"w","h","e","r","e">>, <<"j","o","i","n">>,
    <<"g","r","o","u","p">>, <<"o","r","d","e","r">>, <<"b","y">>, <<"h","a","v","i","n","g">>, <<"l","i","m","i","t">>, <<"c","o","u","n","t">>, <<"d","i","s","t","i","n","c","t">>,
    <<"d","r","o","p">>, <<"a","l","t","e","r">>, <<"c","r","e","a","t","e">>, <<"t","a","b","l","e">>, <<"i","n","d","e","x">>, <<"d","a","t","a","b","a","s","e">>, <<"v","i","e","w">>,
    <<"p","r","i","m","a","r","y">>, <<"f","o","r","e","i","g","n">>, <<"k","e","y">>, <<"n","u","l","l">>, <<"a","n","d">>, <<"o","r">>, <<"n","o","t">>, <<"a","s">>,
    <<"l","i","k","e">>, <<"i","n">>, <<"b","e","t","w","e","e","n">>, <<"e","x","i","s","t","s">>, <<"u","n","i","o","n">>, <<"i","n","t","e","r","s","e","c","t">>, <<"e","x","c","e","p","t">>,
    <<"c","a","s","e">>, <<"w","h","e","n">>, <<"t","h","e","n">>, <<"e","l","s","e">>, <<"e","n","d">>, <<"d","e","f","a","u","l","t">>, <<"c","h","e","c","k">>,
    <<"u","n","i","q","u","e">>, <<"c","a","s","c","a","d","e">> }

(***************************************************************************)
(* num2words(text, lang='en') for a run of digits: the English cardinal of *)
(* the number the digits denote (leading zeros do not count), as the       *)
(* library writes it: "twenty-one", "one hundred and one",                 *)
(* "one thousand, two hundred and thirty-four".  Numbers below 10^6.       *)
(***************************************************************************)
LowWords == <<
    <<"z","e","r","o">>, <<"o","n","e">>, <<"t","w","o">>, <<"t","h","r","e","e">>, <<"f","o","u","r">>, <<"f","i","v","e">>, <<"s","i","x">>, <<"s","e","v","e","n">>,
    <<"e","i","g","h","t">>, <<"n","i","n","e">>, <<"t","e","n">>, <<"e","l","e","v","e","n">>, <<"t","w","e","l","v","e">>, <<"t","h","i","r","t","e","e","n">>,
    <<"f","o","u","r","t","e","e","n">>, <<"f","i","f","t","e","e","n">>, <<"s","i","x","t","e","e","n">>, <<"s","e","v","e","n","t","e","e","n">>, <<"e","i","g","h","t","e","e","n">>,
    <<"n","i","n","e","t","e","e","n">> >>

TensWords == <<
    <<"t","e","n">>, <<"t","w","e","n","t","y">>, <<"t","h","i","r","t","y">>, <<"f","o","r","t","y">>, <<"f","i","f","t","y">>, <<"s","i","x","t","y">>, <<"s","e","v","e","n","t","y">>,
    <<"e","i","g","h","t","y">>, <<"n","i","n","e","t","y">> >>

\* 0..99
WordsBelowHundred(n) ==
    IF n < 20 THEN LowWords[n + 1]
    ELSE IF n % 10 = 0 THEN TensWords[n \div 10]
    ELSE TensWords[n \div 10] \o <<"-">> \o LowWords[(n % 10) + 1]

\* 0..999
WordsBelowThousand(n) ==
    IF n < 100 THEN WordsBelowHundred(n)
    ELSE LowWords[(n \div 100) + 1] \o <<" ","h","u","n","d","r","e","d">> \o
         (IF n % 100 = 0 THEN <<>> ELSE <<" ","a","n","d"," ">> \o WordsBelowHundred(n % 100))

num2words(n) ==
    IF n < 1000 THEN WordsBelowThousand(n)
    ELSE WordsBelowThousand(n \div 1000) \o <<" ","t","h","o","u","s","a","n","d">> \o
         (IF n % 1000 = 0 THEN <<>>
          ELSE IF n % 1000 < 100 THEN <<" ","a","n","d"," ">> \o WordsBelowHundred(n % 1000)
          ELSE <<","," ">> \o WordsBelowThousand(n % 1000))

(***************************************************************************)
(* shorten_column_name, src/data_extraction.py:30-51.                      *)
(***************************************************************************)
MAX_LENGTH == 63     \* max_length=63
SEPARATOR == <<"x","x","x">>

\* a plausible slip: the suffix slice taken one character short
shorten_column_name_short_suffix(s, max_length) ==
    IF Len(s) <= max_length THEN s
    ELSE LET prefix_length == (max_length - Len(SEPARATOR)) \div 2
             suffix_length == max_length - Len(SEPARATOR) - prefix_length
         IN  SubSeq(s, 1, prefix_length) \o SEPARATOR \o
             SubSeq(s, Len(s) - suffix_length + 2, Len(s))

shorten_column_name(s, max_length) ==
    IF Len(s) <= max_length THEN s
    ELSE LET prefix_length == (max_length - Len(SEPARATOR)) \div 2
             suffix_length == max_length - Len(SEPARATOR) - prefix_length
         IN  SubSeq(s, 1, prefix_length) \o SEPARATOR \o
             SubSeq(s, Len(s) - suffix_length + 1, Len(s))

(***************************************************************************)
(* format_column_name, src/data_extraction.py:69-88, one operator per      *)
(* statement.                                                              *)
(***************************************************************************)
\* name.replace("%", "percent")
ReplacePercent(s) ==
    Flatten([i \in 1..Len(s) |-> IF s[i] = "%" THEN <<"p","e","r","c","e","n","t">> ELSE <<s[i]>>])

\* a plausible slip: 'per' set off by underscores
ReplaceSlashPadded(s) ==
    Flatten([i \in 1..Len(s) |-> IF s[i] = "/" THEN <<"_","p","e","r","_">> ELSE <<s[i]>>])

\* name.replace("/", "per")
ReplaceSlash(s) ==
    Flatten([i \in 1..Len(s) |-> IF s[i] = "/" THEN <<"p","e","r">> ELSE <<s[i]>>])

\* re.sub(r"[^\w\s]", "", name)
RemoveNonWord(s) ==
    Flatten([i \in 1..Len(s) |->
                IF IsWord(s[i]) \/ IsSpace(s[i]) THEN <<s[i]>> ELSE <<>>])

\* re.sub(r'\d+', lambda x: num2words(x.group(), lang='en'), name):
\* every maximal run of digits is replaced by the words of its number
NumbersToWords(s) ==
    LET RunStart(i) == IsDigit(s[i]) /\ (i = 1 \/ ~IsDigit(s[i - 1]))
        RunEnd(i) == CHOOSE j \in i..Len(s) :
                        /\ \A k \in i..j : IsDigit(s[k])
                        /\ j = Len(s) \/ ~IsDigit(s[j + 1])
        \* Decimal(text): the number the digits i..j denote
        Value[i \in 1..Len(s), j \in 1..Len(s)] ==
            IF j = i THEN DigitValue(s[i])
            ELSE 10 * Value[i, j - 1] + DigitValue(s[j])
        Piece(i) == IF ~IsDigit(s[i]) THEN <<s[i]>>
                    ELSE IF RunStart(i) THEN num2words(Value[i, RunEnd(i)])
                    ELSE <<>>
    IN  Flatten([i \in 1..Len(s) |-> Piece(i)])

\* .replace('-', '_')
ReplaceHyphen(s) == [i \in 1..Len(s) |-> IF s[i] = "-" THEN "_" ELSE s[i]]

\* name.strip()
Strip(s) ==
    LET keep == { i \in 1..Len(s) : ~IsSpace(s[i]) }
    IN  IF keep = {} THEN <<>>
        ELSE SubSeq(s, CHOOSE i \in keep : \A j \in keep : i <= j,
                       CHOOSE i \in keep : \A j \in keep : i >= j)

\* .lower()
Lower(s) == [i \in 1..Len(s) |-> LowerChar(s[i])]

\* .replace(" ", "_")
ReplaceSpace(s) == [i \in 1..Len(s) |-> IF s[i] = " " THEN "_" ELSE s[i]]

\* lines 73-83: the name before the keyword check
transformed_name(s) ==
    LET n1 == ReplacePercent(s)
        n2 == ReplaceSlash(n1)
        n3 == RemoveNonWord(n2)
        n4 == ReplaceHyphen(NumbersToWords(n3))
        n5 == IF Len(n4) > MAX_LENGTH THEN shorten_column_name(n4, MAX_LENGTH) ELSE n4
    IN  ReplaceSpace(Lower(Strip(n5)))

\* a plausible slip: the keyword check dropped
format_column_name_no_prefix(s) == transformed_name(s)

format_column_name(s) ==
    LET n == transformed_name(s)
    IN  IF n \in SQL_KEYWORDS THEN <<"s","q","l","_">> \o n ELSE n

(***************************************************************************)
(* Headers the normalizer is run on.                                       *)
(***************************************************************************)
Alphabet == {"a", "s", "S", " ", "\t", "%", "/", "-", "!", "_", "1", "2"}
LongAlphabet == {"a", "S", " ", "!"}

SeqsUpTo(A, n) == UNION { [1..k -> A] : k \in 0..n }

ShortHeaders == SeqsUpTo(Alphabet, MaxLen)

\* two blocks of one character each, every split of every length 62..MaxLong
LongHeaders ==
    { Rep(c, k) \o Rep(d, n - k) :
        <<c, d, n, k>> \in { q \in LongAlphabet \X LongAlphabet \X (62..MaxLong) \X (0..MaxLong) :
                               q[4] <= q[3] } }

Q3_2021 == <<"Q","3","/","2","0","2","1">>
ExampleHeaders ==
    { Q3_2021, <<"R","e","v","e","n","u","e"," ","%">>, <<"s","e","l","e","c","t">>, <<" ","S","e","l","e","c","t"," ">>, <<"O","r","d","e","r">>, <<"c","o","l"," ","1","2","3","4">>,
      <<"0","0","7">>, <<"1","0","0">>, <<"2","1","0","0","0">>, <<"a","-","b">>, <<"x","_","1","0","1">>, <<"i","d">> }

Headers == ShortHeaders \cup LongHeaders \cup ExampleHeaders

NormInit ==
    /\ name \in Headers
    /\ result = <<>>
    /\ npc = "input"

FormatColumnName ==
    /\ npc = "input"
    /\ result' = format_column_name(name)
    /\ npc' = "formatted"
    /\ UNCHANGED name

ShortenColumnName ==
    /\ npc = "input"
    /\ result' = shorten_column_name(name, MAX_LENGTH)
    /\ npc' = "shortened"
    /\ UNCHANGED name


(***************************************************************************)
(* Type inference, src/data_extraction.py:90-136.                          *)
(***************************************************************************)
\* str.isdigit(): not empty, and every character a digit
isdigit(v) == Len(v) > 0 /\ \A i \in 1..Len(v) : IsDigit(v[i])

\* float(value) succeeds: Python's float literal after the whitespace is
\* stripped ([sign] digits [. digits] [e [sign] digits], an underscore only
\* between two digits), or inf / infinity / nan in any case with a sign.
FloatStep(q, c) ==
    LET d == IsDigit(c)
        sign == c \in {"+", "-"}
        e == c \in {"e", "E"}
    IN  CASE q = 0  -> IF sign THEN 1 ELSE IF d THEN 2 ELSE IF c = "." THEN 4 ELSE -1
          [] q = 1  -> IF d THEN 2 ELSE IF c = "." THEN 4 ELSE -1
          [] q = 2  -> IF d THEN 2 ELSE IF c = "_" THEN 9 ELSE IF c = "." THEN 3
                       ELSE IF e THEN 6 ELSE -1
          [] q = 3  -> IF d THEN 5 ELSE IF e THEN 6 ELSE -1
          [] q = 4  -> IF d THEN 5 ELSE -1
          [] q = 5  -> IF d THEN 5 ELSE IF c = "_" THEN 10 ELSE IF e THEN 6 ELSE -1
          [] q = 6  -> IF sign THEN 7 ELSE IF d THEN 8 ELSE -1
          [] q = 7  -> IF d THEN 8 ELSE -1
          [] q = 8  -> IF d THEN 8 ELSE IF c = "_" THEN 11 ELSE -1
          [] q = 9  -> IF d THEN 2 ELSE -1
          [] q = 10 -> IF d THEN 5 ELSE -1
          [] q = 11 -> IF d THEN 8 ELSE -1
          [] OTHER  -> -1

is_float(value) ==
    LET v == Strip(value)
        F[i \in 0..Len(v)] == IF i = 0 THEN 0 ELSE FloatStep(F[i - 1], v[i])
        unsigned == IF Len(v) > 0 /\ v[1] \in {"+", "-"} THEN SubSeq(v, 2, Len(v)) ELSE v
    IN  \/ F[Len(v)] \in {2, 3, 5, 8}
        \/ Lower(unsigned) \in {<<"i","n","f">>, <<"i","n","f","i","n","i","t","y">>, <<"n","a","n">>}

\* dateutil.parser.parse(value) succeeds.  The parser is a library; what it
\* accepts is tabulated for the cell values of the model (SampleValues).
ParsableDates == { <<"2","0","2","1","-","0","1","-","0","1">>, <<"1","2","/","3","1","/","2","0","2","0">>, <<"3">> }

is_date(value) == value \in ParsableDates

\* s[1:]
DropFirst(s) == SubSeq(s, 2, Len(s))

\* a plausible slip: the float test ahead of the digit test
column_type_float_first(value) ==
    IF is_float(value) THEN "FLOAT"
    ELSE IF isdigit(value) THEN "INT"
    ELSE IF is_date(value) THEN "DATE"
    ELSE "VARCHAR"

\* lines 107-114: the if / elif chain
column_type(value) ==
    IF isdigit(value) THEN "INT"
    ELSE IF is_float(value) THEN "FLOAT"
    ELSE IF is_date(value) THEN "DATE"
    ELSE "VARCHAR"

\* next(reader) twice: StopIteration when the file has no second row
infer_column_types(file) ==
    IF Len(file) < 2
    THEN [raised |-> TRUE, header |-> <<>>, types |-> <<>>]
    ELSE LET header == DropFirst(file[1])
             sample_row == DropFirst(file[2])
             T[i \in 0..Len(sample_row)] ==
                 IF i = 0 THEN <<>> ELSE Append(T[i - 1], column_type(sample_row[i]))
         IN  [raised |-> FALSE,
              header |-> [i \in 1..Len(header) |-> format_column_name(header[i])],
              types |-> T[Len(sample_row)]]

NoInference == [raised |-> FALSE, header |-> <<>>, types |-> <<>>]

(***************************************************************************)
(* Files the type inferrer is run on: a header and one sample row.         *)
(***************************************************************************)
SampleValues ==
    { <<"3">>, <<"4",".","5">>, <<"2","0","2","1","-","0","1","-","0","1">>, <<"P","a","r","i","s">>, <<>>, <<"-","7">>, <<"1","e","3">>, <<"1","2","/","3","1","/","2","0","2","0">> }

ExampleRow == << <<"i","d">>, <<"3">>, <<"4",".","5">>, <<"2","0","2","1","-","0","1","-","0","1">>, <<"P","a","r","i","s">> >>

HeaderPool == << <<"i","d">>, <<"R","e","v","e","n","u","e"," ","%">>, <<"s","e","l","e","c","t">>, <<"Q","3","/","2","0","2","1">>, <<"a">>, <<"b">>, <<"c">> >>

Min(a, b) == IF a <= b THEN a ELSE b

HeaderRows(n) == { SubSeq(HeaderPool, 1, k) : k \in 1..Min(n, Len(HeaderPool)) }

SampleRows ==
    {<<>>, ExampleRow} \cup
    { <<f>> \o r : f \in {<<"i","d">>, <<"3">>}, r \in SeqsUpTo(SampleValues, MaxCells) }

SampleFiles ==
    {<<>>} \cup { <<h>> : h \in HeaderRows(MaxCells + 2) } \cup
    { <<h, r>> : h \in HeaderRows(MaxCells + 2), r \in SampleRows }

InferInit ==
    /\ csv \in SampleFiles
    /\ inferred = NoInference
    /\ pc = "infer"
    /\ conn = "none"
    /\ cursor = "none"
    /\ row_index = 0
    /\ events = <<>>

InferColumnTypes ==
    /\ pc = "infer"
    /\ inferred' = infer_column_types(csv)
    /\ pc' = "inferred"
    /\ UNCHANGED <<csv, conn, cursor, row_index, events>>

(***************************************************************************)
(* The loader: main(), src/data_extraction.py:184-212, one action per      *)
(* call on the database.  The database decides whether a call raises.      *)
(***************************************************************************)
Ev(op, ok, cols, types, params) ==
    [op |-> op, ok |-> ok, cols |-> cols, types |-> types, params |-> params]

Did(op, ok) == Ev(op, ok, <<>>, <<>>, <<>>)

\* close_connection: what it closes, and the handles afterwards
CloseEvents(cn, cu) ==
    (IF cu # "none" THEN <<Did("cursor.close", TRUE)>> ELSE <<>>) \o
    (IF cn # "none" THEN <<Did("conn.close", TRUE)>> ELSE <<>>)

Closed(handle) == IF handle = "none" THEN "none" ELSE "closed"

\* the rows csv.reader still holds after next(reader) took the header
data_rows_after_sample(file) == SubSeq(file, 3, Len(file))

data_rows(file) == SubSeq(file, 2, Len(file))

\* lines 160-163: the column list of the INSERT statement
insert_columns(file) ==
    LET header == DropFirst(file[1])
    IN  [i \in 1..Len(header) |-> format_column_name(header[i])]

\* line 143: zip(header, column_types) stops at the shorter of the two
zip_length(header, column_types) == Min(Len(header), Len(column_types))

LoadValues == { <<"3">>, <<"x">> }

\* an empty line, or a key cell and up to MaxCols - 1 cells of data
LoadRows == {<<>>} \cup { <<<<"k">>>> \o r : r \in SeqsUpTo(LoadValues, MaxCols - 1) }

LoadFiles ==
    {<<>>} \cup
    { <<h>> \o rows : h \in HeaderRows(MaxCols + 1), rows \in SeqsUpTo(LoadRows, MaxRows) }

LoadInit ==
    /\ csv \in LoadFiles
    /\ inferred = NoInference
    /\ pc = "connect"
    /\ conn = "none"
    /\ cursor = "none"
    /\ row_index = 0
    /\ events = <<>>

\* connect_to_db, lines 53-67: logs and re-raises
ConnectToDb ==
    /\ pc = "connect"
    /\ \E ok \in BOOLEAN :
        /\ conn' = IF ok THEN "open" ELSE "none"
        /\ events' = IF ok THEN Append(events, Did("connect", TRUE))
                     ELSE events \o <<Did("connect", FALSE), Did("log_error", TRUE)>>
        /\ pc' = IF ok THEN "cursor" ELSE "except"
    /\ UNCHANGED <<csv, inferred, cursor, row_index>>

\* line 191
OpenCursor ==
    /\ pc = "cursor"
    /\ \E ok \in BOOLEAN :
        /\ cursor' = IF ok THEN "open" ELSE "none"
        /\ events' = Append(events, Did("cursor", ok))
        /\ pc' = IF ok THEN "create" ELSE "except"
    /\ UNCHANGED <<csv, inferred, conn, row_index>>

\* create_table_from_csv, lines 138-151
CreateTableFromCsv ==
    /\ pc = "create"
    /\ LET inf == infer_column_types(csv)
           n == zip_length(inf.header, inf.types)
       IN  /\ inferred' = inf
           /\ IF inf.raised
              THEN /\ events' = Append(events, Did("raise", FALSE))
                   /\ pc' = "except"
              ELSE \E ok \in BOOLEAN :
                   /\ events' = Append(events,
                         Ev("CREATE", ok, SubSeq(inf.header, 1, n),
                            SubSeq(inf.types, 1, n), <<>>))
                   /\ pc' = IF ok THEN "commit_create" ELSE "except"
    /\ UNCHANGED <<csv, conn, cursor, row_index>>

\* line 200, then insert_data_from_csv up to its first execute
CommitCreate ==
    /\ pc = "commit_create"
    /\ \E ok \in BOOLEAN :
        /\ events' = Append(events, Did("commit", ok))
        /\ pc' = IF ~ok THEN "except"
                 ELSE IF Len(data_rows(csv)) = 0 THEN "commit_insert" ELSE "insert"
    /\ row_index' = 1
    /\ UNCHANGED <<csv, inferred, conn, cursor>>

\* a plausible slip: the loop swallowing a row's error and going on
InsertRowSwallowError ==
    /\ pc = "insert"
    /\ \E ok \in BOOLEAN :
        /\ events' = Append(events,
              Ev("INSERT", ok, insert_columns(csv), <<>>,
                 DropFirst(data_rows(csv)[row_index])))
        /\ pc' = IF row_index = Len(data_rows(csv)) THEN "commit_insert" ELSE "insert"
    /\ row_index' = row_index + 1
    /\ UNCHANGED <<csv, inferred, conn, cursor>>

\* lines 169-172: one pass of the loop
InsertRow ==
    /\ pc = "insert"
    /\ \E ok \in BOOLEAN :
        /\ events' = Append(events,
              Ev("INSERT", ok, insert_columns(csv), <<>>,
                 DropFirst(data_rows(csv)[row_index])))
        /\ pc' = IF ~ok THEN "except"
                 ELSE IF row_index = Len(data_rows(csv)) THEN "commit_insert"
                 ELSE "insert"
    /\ row_index' = row_index + 1
    /\ UNCHANGED <<csv, inferred, conn, cursor>>

\* line 204
CommitInsert ==
    /\ pc = "commit_insert"
    /\ \E ok \in BOOLEAN :
        /\ events' = Append(events, Did("commit", ok))
        /\ pc' = IF ok THEN "finally" ELSE "except"
    /\ UNCHANGED <<csv, inferred, conn, cursor, row_index>>

\* lines 206-208
ExceptHandler ==
    /\ pc = "except"
    /\ events' = events \o <<Did("log_error", TRUE)>> \o CloseEvents(conn, cursor)
    /\ conn' = Closed(conn)
    /\ cursor' = Closed(cursor)
    /\ pc' = "finally"
    /\ UNCHANGED <<csv, inferred, row_index>>

\* a plausible slip: no finally block, the handles closed on an error only
FinallyWithoutClose ==
    /\ pc = "finally"
    /\ pc' = "returned"
    /\ UNCHANGED <<csv, inferred, conn, cursor, row_index, events>>

\* lines 210-212
Finally ==
    /\ pc = "finally"
    /\ events' = events \o CloseEvents(conn, cursor)
    /\ conn' = Closed(conn)
    /\ cursor' = Closed(cursor)
    /\ pc' = "returned"
    /\ UNCHANGED <<csv, inferred, row_index>>

(***************************************************************************)
(* The chat UI: one rerun of main(), src/postgres_calling_agent.py:82-136. *)
(* query: the text area; clicked: st.button("Run Query"); setup: how the   *)
(* agent's initialisation ends when it runs; run: what agent.run does.     *)
(***************************************************************************)
Queries == {"", "q1", "q2"}
Responses == {"r1", "r2"}

UIInit ==
    /\ session_keys = {}
    /\ history = <<>>
    /\ last = [query |-> "", clicked |-> FALSE, called |-> FALSE, raised |-> FALSE,
               response |-> ""]

\* a plausible slip: the entry appended before the agent has answered
MainAppendsBeforeRun(query, clicked, setup, run) ==
    LET init == "agent" \notin session_keys
        keys == IF init /\ setup # "setup_fails"
                THEN session_keys \cup {"agent"} ELSE session_keys
        called == ~(init /\ setup # "ok") /\ clicked /\ query # ""
        response == IF called /\ run # "raises" THEN run ELSE ""
    IN  /\ Len(history) < MaxHistory
        /\ session_keys' = IF called THEN keys \cup {"history"} ELSE keys
        /\ history' = IF called
                      THEN Append(history, [query |-> query, response |-> response])
                      ELSE history
        /\ last' = [query |-> query, clicked |-> clicked, called |-> called,
                    raised |-> called /\ run = "raises", response |-> response]

Main(query, clicked, setup, run) ==
    LET init == "agent" \notin session_keys
        \* line 91 stores the agent before line 92 can raise
        keys == IF init /\ setup # "setup_fails"
                THEN session_keys \cup {"agent"} ELSE session_keys
        \* line 101: return
        called == ~(init /\ setup # "ok") /\ clicked /\ query # ""
        answered == called /\ run # "raises"
        response == IF answered THEN run ELSE ""
    IN  /\ Len(history) < MaxHistory
        /\ session_keys' = IF answered THEN keys \cup {"history"} ELSE keys
        /\ history' = IF answered
                      THEN Append(history, [query |-> query, response |-> response])
                      ELSE history
        /\ last' = [query |-> query, clicked |-> clicked, called |-> called,
                    raised |-> called /\ ~answered, response |-> response]

Rerun ==
    \E query \in Queries, clicked \in BOOLEAN,
       setup \in {"ok", "setup_fails", "schema_fails"},
       run \in Responses \cup {"raises"} :
        Main(query, clicked, setup, run)

(***************************************************************************)
(* Specifications: one per component; the other components stand idle.     *)
(***************************************************************************)
NormIdle == name = <<>> /\ result = <<>> /\ npc = "idle"

LoadIdle ==
    /\ csv = <<>>
    /\ inferred = NoInference
    /\ pc = "idle"
    /\ conn = "none"
    /\ cursor = "none"
    /\ row_index = 0
    /\ events = <<>>

UIIdle == session_keys = {} /\ history = <<>> /\ last = <<>>

NextNorm ==
    \/ FormatColumnName /\ UNCHANGED <<loadVars, uiVars>>
    \/ ShortenColumnName /\ UNCHANGED <<loadVars, uiVars>>

NextInfer == InferColumnTypes /\ UNCHANGED <<normVars, uiVars>>

NextLoad ==
    \/ ConnectToDb /\ UNCHANGED <<normVars, uiVars>>
    \/ OpenCursor /\ UNCHANGED <<normVars, uiVars>>
    \/ CreateTableFromCsv /\ UNCHANGED <<normVars, uiVars>>
    \/ CommitCreate /\ UNCHANGED <<normVars, uiVars>>
    \/ InsertRow /\ UNCHANGED <<normVars, uiVars>>
    \/ CommitInsert /\ UNCHANGED <<normVars, uiVars>>
    \/ ExceptHandler /\ UNCHANGED <<normVars, uiVars>>
    \/ Finally /\ UNCHANGED <<normVars, uiVars>>

NextUI == Rerun /\ UNCHANGED <<normVars, loadVars>>

InitNorm == NormInit /\ LoadIdle /\ UIIdle
InitInfer == NormIdle /\ InferInit /\ UIIdle
InitLoad == NormIdle /\ LoadInit /\ UIIdle
InitUI == NormIdle /\ LoadIdle /\ UIInit

SpecNorm == InitNorm /\ [][NextNorm]_vars
SpecInfer == InitInfer /\ [][NextInfer]_vars
SpecLoad == InitLoad /\ [][NextLoad]_vars
SpecUI == InitUI /\ [][NextUI]_vars

(***************************************************************************)
(* Properties of the column normalizer (SpecNorm).                         *)
(***************************************************************************)
IdentifierChars == LowerChars \cup DigitChars \cup {"_"}
LetterChars == LowerChars \cup UpperChars

\* C1: the output of format_column_name is at most 63 characters long,
\* lowercase, and made of word characters only.  The code breaks it: white
\* space other than the space inside the header, and the comma num2words
\* writes in a number of four digits or more, reach the output.
C1_OutputIsIdentifier ==
    npc = "formatted" =>
        /\ Len(result) <= 63
        /\ \A i \in 1..Len(result) : result[i] \in IdentifierChars

\* C2: the output of format_column_name is never a reserved keyword: a name
\* that is a keyword k once transformed comes out as sql_k, every other
\* name comes out as transformed, with no prefix.
C2_KeywordPrefixed ==
    npc = "formatted" =>
        LET n == transformed_name(name)
        IN  /\ result \notin SQL_KEYWORDS
            /\ n \in SQL_KEYWORDS => result = <<"s","q","l","_">> \o n
            /\ n \notin SQL_KEYWORDS => result = n

\* C2, witness: a header that is a keyword once stripped and lowercased
C2_Witness ==
    /\ npc = "formatted"
    /\ name = <<" ","S","e","l","e","c","t"," ">>
    /\ result = <<"s","q","l","_","s","e","l","e","c","t">>

\* what shorten_column_name is to return for the name s
Shortened(s) ==
    IF Len(s) > 63
    THEN SubSeq(s, 1, 30) \o <<"x","x","x">> \o SubSeq(s, Len(s) - 29, Len(s))
    ELSE s

\* C8 as stated: every 70-character input normalizes to exactly 63
\* characters with the separator in the middle, and shortening keeps the
\* first 30 and the last 30 characters around 'xxx'.
C8_Original ==
    /\ npc = "formatted" /\ Len(name) = 70 =>
           Len(result) = 63 /\ SubSeq(result, 31, 33) = <<"x","x","x">>
    /\ npc = "shortened" => result = Shortened(name)

\* C8, amended: shorten_column_name returns a name longer than 63 characters
\* as its first 30 characters, 'xxx', its last 30 characters (63 in all) and
\* any other name unchanged; a 70-character input of letters and underscores
\* normalizes to exactly that, lowercased; any other 70-character input
\* normalizes to at most 63 characters (characters are removed, expanded or
\* stripped around the shortening).
C8_Amended ==
    /\ npc = "shortened" =>
           /\ result = Shortened(name)
           /\ Len(name) > 63 => Len(result) = 63
    /\ npc = "formatted" /\ Len(name) = 70 =>
           /\ Len(result) <= 63
           /\ (\A i \in 1..70 : name[i] \in LetterChars \cup {"_"}) =>
                  result = Lower(SubSeq(name, 1, 30)) \o <<"x","x","x">> \o
                           Lower(SubSeq(name, 41, 70))

\* C8, witness: a 70-character header of letters, normalized
C8_Witness ==
    /\ npc = "formatted"
    /\ Len(name) = 70
    /\ \A i \in 1..70 : name[i] \in LetterChars
    /\ name[1] # name[70]
    /\ Len(result) = 63
    /\ SubSeq(result, 31, 33) = <<"x","x","x">>

\* C9 as stated: "Q3/2021" normalizes to qthree_per_twozerotwoone.
C9_Original ==
    npc = "formatted" /\ name = Q3_2021 => result = <<"q","t","h","r","e","e","_","p","e","r","_","t","w","o","z","e","r","o","t","w","o","o","n","e">>

\* C9, amended: "Q3/2021" normalizes to qthreepertwo_thousand_and_twenty_one:
\* '/' becomes 'per' with nothing around it, and every run of digits becomes
\* the English cardinal of its number, its spaces and hyphens as underscores.
C9_Amended ==
    npc = "formatted" =>
        /\ name = Q3_2021 => result = <<"q","t","h","r","e","e","p","e","r","t","w","o","_","t","h","o","u","s","a","n","d","_","a","n","d","_","t","w","e","n","t","y","_","o","n","e">>
        /\ name = <<"a","/","s">> => result = <<"a","p","e","r","s">>
        /\ name = <<"0","0","7">> => result = <<"s","e","v","e","n">>
        /\ name = <<"2","1","0","0","0">> => result = <<"t","w","e","n","t","y","_","o","n","e","_","t","h","o","u","s","a","n","d">>
        /\ name = <<"x","_","1","0","1">> => result = <<"x","_","o","n","e","_","h","u","n","d","r","e","d","_","a","n","d","_","o","n","e">>

\* C9, witness: "Q3/2021", normalized
C9_Witness ==
    /\ npc = "formatted"
    /\ name = Q3_2021
    /\ Len(result) = 36

(***************************************************************************)
(* Properties of the type inferrer (SpecInfer).                            *)
(***************************************************************************)
\* C3: infer_column_types drops the first field of the header and of the
\* sample row and returns one type per remaining sample value, in order:
\* INT for a string of digits, else FLOAT for one float() parses, else DATE
\* for one the date parser accepts, else VARCHAR; the row
\* id, 3, 4.5, 2021-01-01, Paris gives INT, FLOAT, DATE, VARCHAR.
C3_TypesByPriority ==
    pc = "inferred" /\ ~inferred.raised =>
        LET sample == csv[2]
            types == inferred.types
        IN  /\ Len(types) = (IF Len(sample) = 0 THEN 0 ELSE Len(sample) - 1)
            /\ Len(inferred.header) = Len(csv[1]) - 1
            /\ \A i \in 1..Len(types) :
                 LET v == sample[i + 1]
                 IN  /\ (types[i] = "INT") <=> isdigit(v)
                     /\ (types[i] = "FLOAT") <=> (~isdigit(v) /\ is_float(v))
                     /\ (types[i] = "DATE") <=>
                            (~isdigit(v) /\ ~is_float(v) /\ is_date(v))
                     /\ (types[i] = "VARCHAR") <=>
                            (~isdigit(v) /\ ~is_float(v) /\ ~is_date(v))
            /\ sample = ExampleRow => types = <<"INT", "FLOAT", "DATE", "VARCHAR">>

\* C3, witness: the types of the spec's sample row, inferred
C3_Witness ==
    /\ pc = "inferred"
    /\ Len(csv) = 2
    /\ csv[2] = ExampleRow
    /\ inferred.types = <<"INT", "FLOAT", "DATE", "VARCHAR">>

(***************************************************************************)
(* Properties of the loader (SpecLoad).                                    *)
(***************************************************************************)
Inserts == SelectSeq(events, LAMBDA e : e.op = "INSERT")

DbCalls == {"connect", "cursor", "CREATE", "INSERT", "commit"}

\* no call on the database raised
NoCallFailed == \A i \in 1..Len(events) : events[i].op \in DbCalls => events[i].ok

\* C4: a load of a file with a header and N data rows in which no statement
\* fails executes exactly N INSERTs, one per data row in file order, the
\* sample row included, each with the row's cells but the first.
C4_OneInsertPerRow ==
    pc = "returned" /\ Len(csv) >= 1 /\ NoCallFailed =>
        /\ Len(Inserts) = Len(csv) - 1
        /\ \A i \in 1..Len(Inserts) : Inserts[i].params = DropFirst(csv[i + 1])

\* C4, witness: a load of two different data rows that ran to its end
C4_Witness ==
    /\ pc = "returned"
    /\ NoCallFailed
    /\ Len(csv) = 3
    /\ csv[2] # csv[3]
    /\ Len(Inserts) = 2

\* C5: the column names of the CREATE TABLE statement are, in order, those
\* of every INSERT statement of the same load, also when the sample row has
\* fewer or more cells than the header.  The code breaks it: zip() cuts the
\* CREATE's columns to the length of the sample row.
C5_SameColumns ==
    \A i, j \in 1..Len(events) :
        events[i].op = "CREATE" /\ events[j].op = "INSERT" =>
            events[i].cols = events[j].cols

\* C6: every failure ends the run: after a call that raised, no statement
\* and no commit is executed (no later row is inserted, nothing is tried
\* again), and the error is logged.
C6_FailureIsTerminal ==
    /\ \A i, j \in 1..Len(events) :
           i < j /\ ~events[i].ok => events[j].op \notin DbCalls
    /\ pc \in {"finally", "returned"} =>
           \A i \in 1..Len(events) :
               ~events[i].ok =>
                   \E j \in (i + 1)..Len(events) : events[j].op = "log_error"

\* C6, witness: the INSERT of the first of two data rows raised, and main
\* returned without inserting the second
C6_Witness ==
    /\ pc = "returned"
    /\ Len(csv) = 3
    /\ Len(Inserts) = 1
    /\ ~Inserts[1].ok

\* C7: on every path through main, the connection and the cursor that were
\* opened are closed when main returns, and nothing is executed on them
\* once they are closed.
C7_HandlesClosed ==
    /\ pc = "returned" =>
           /\ conn # "open"
           /\ cursor # "open"
           /\ (\E i \in 1..Len(events) : events[i].op = "connect" /\ events[i].ok)
                  => conn = "closed"
           /\ (\E i \in 1..Len(events) : events[i].op = "cursor" /\ events[i].ok)
                  => cursor = "closed"
    /\ \A i, j \in 1..Len(events) :
           i < j /\ events[i].op \in {"cursor.close", "conn.close"} =>
               events[j].op \notin {"cursor", "CREATE", "INSERT", "commit"}

\* C7, witness: a load without any error, returned with both handles closed
C7_Witness ==
    /\ pc = "returned"
    /\ NoCallFailed
    /\ Len(Inserts) >= 1
    /\ conn = "closed"
    /\ cursor = "closed"

(***************************************************************************)
(* Properties of the chat UI (SpecUI).                                     *)
(***************************************************************************)
\* C10: the session history is append-only: a rerun in which the button was
\* clicked on a non-empty query and the agent answered appends exactly that
\* {query, response} entry at the end; any other rerun (no click, an empty
\* query, the agent raising, the initialisation failing) leaves the history
\* as it was.
C10_HistoryAppendOnly ==
    [][ LET answered == /\ last'.clicked
                        /\ last'.query # ""
                        /\ last'.called
                        /\ ~last'.raised
        IN  /\ answered =>
                history' = Append(history, [query |-> last'.query,
                                            response |-> last'.response])
            /\ ~answered => history' = history ]_vars

\* C10, witness: a second answered query, appended after the first
C10_Witness ==
    /\ Len(history) = 2
    /\ last.called
    /\ ~last.raised
    /\ history[2] = [query |-> last.query, response |-> last.response]
    /\ history[1].query # history[2].query

=============================================================================
